---------------------------- MODULE Spec2Model ----------------------------
(***************************************************************************)
(* Model of the docker backend of the worker (src/backend/docker.go):      *)
(* the provider's CPU-set pool (checkoutCPUSets / checkinCPUSets under     *)
(* cpuSetsMutex), Provider.Start, the Instance operations UploadScript,    *)
(* RunScript and Stop, and the tag image selector                          *)
(* (dockerTagImageSelector.Select, findDockerImageByTag).                  *)
(*                                                                         *)
(* Go strings are sequences of one-character strings, so that formatting   *)
(* (fmt.Sprintf("%d")), strings.Join, strings.Split and strconv.ParseUint  *)
(* are computed rather than assumed.  Go slice index i is pool index i:    *)
(* the pool is a function on 0 .. len-1.                                   *)
(***************************************************************************)
EXTENDS Integers, Sequences, FiniteSets, TLC

\* ------------------------------------------------------------------ bounds

\* Largest CPU_SET_SIZE the configuration is drawn from (sizes 0 .. this).
MaxCPUSetSize == 3

\* Largest CPUS (cpu count per container) the configuration is drawn from.
MaxCPUs == 2

\* Number of concurrent callers of checkoutCPUSets / checkinCPUSets.
NumCallers == 3

\* Number of Provider.Start calls (each may return one Instance).
MaxStarts == 2

\* Number of Stop calls made on one Instance.
MaxStops == 2

\* Longest assignment string handed to checkinCPUSets on its own.
MaxSetsLen == 3

\* Largest number of images in the catalog ListImages returns.
MaxImages == 2

\* Largest number of repository tags of one image.
MaxTags == 1

\* --------------------------------------------------------------- variables

VARIABLES
    cpuSets,       \* dockerProvider.cpuSets: [0 .. len-1 -> BOOLEAN]
    cpuSetsMutex,  \* dockerProvider.cpuSetsMutex: 0 when free, else the holder
    runCPUs,       \* dockerProvider.runCPUs
    runNative,     \* dockerProvider.runNative
    panicked,      \* a goroutine hit a run-time panic (the process is gone)
    \* callers of the pool operations, one call at a time each
    ppc,           \* position of caller p inside checkout / checkin
    plocal,        \* checkoutCPUSets' local slice cpuSets (during the call)
    pret,          \* checkoutCPUSets' returned string (during the call)
    perr,          \* checkoutCPUSets' returned error, "" is nil (during the call)
    pentry,        \* the pool as it was when the call in progress took the mutex
    holding,       \* caller p holds an assignment not yet checked in
    psets,         \* the string caller p got and passes to checkinCPUSets
    \* Provider.Start calls and the Instance each may return
    spc,           \* position of Start call s
    ctx,           \* the context handed to Start: "live" or its Err()
    ctxEntry,      \* the context was already done when Start was called
    sres,          \* what Start returned: "instance", or the error
    scpu,          \* Start's local cpuSets, the string in dockerConfig.CPUSet
    createCalled,  \* Start has issued CreateContainer
    removeCalled,  \* Start has issued the force RemoveContainer
    gpc,           \* position of the readiness-polling goroutine of Start s
    inst,          \* dockerInstance.container of the returned Instance
    ipc,           \* position of the call in progress on the Instance
    stops,         \* Stop calls on the Instance that have returned
    stopArg,       \* the argument the defer statement of Stop evaluated
    stres,         \* what the last Stop returned ("" is nil)
    stopLog,       \* what the Stop call in progress has done so far, in order
    \* one call of dockerTagImageSelector.Select
    language,      \* params.Language
    images,        \* what ListImages returned: a sequence of [ID, RepoTags]
    selpc,         \* position of the Select call
    selret,        \* what Select returned: [name, err]
    \* one UploadScript or RunScript call on an Instance, step by step
    rpc,           \* position of the call
    epc,           \* position of the goroutine that runs StartExec
    conn,          \* the ssh connection of the call: "none", "open", "closed"
    seen,          \* what the last runtime or ssh call of the call reported
    rres           \* what the call returned: [completed, exitCode, err]

poolVars == <<cpuSets, cpuSetsMutex, runCPUs, runNative, panicked>>
callerVars == <<ppc, plocal, pret, perr, pentry, holding, psets>>
startVars == <<spc, ctx, ctxEntry, sres, scpu, createCalled, removeCalled, gpc>>
instVars == <<inst, ipc, stops, stopArg, stres, stopLog>>
lifeVars == <<startVars, instVars>>
selVars == <<language, images, selpc, selret>>
scriptVars == <<rpc, epc, conn, seen, rres>>
auxVars == <<selVars, scriptVars>>
vars == <<poolVars, callerVars, lifeVars, auxVars>>

\* ----------------------------------------------------------------- strings

Digits == <<"0", "1", "2", "3", "4", "5", "6", "7", "8", "9">>

IsDigit(c) == \E d \in 1 .. 10 : Digits[d] = c

DigitVal(c) == (CHOOSE d \in 1 .. 10 : Digits[d] = c) - 1

\* fmt.Sprintf("%d", n) / strconv.Itoa(n) for n >= 0.
RECURSIVE Itoa(_)
Itoa(n) ==
    IF n < 10 THEN <<Digits[n + 1]>>
    ELSE Itoa(n \div 10) \o <<Digits[(n % 10) + 1]>>

\* strings.Join(elems, sep).
RECURSIVE Join(_, _)
Join(elems, sep) ==
    IF Len(elems) = 0 THEN <<>>
    ELSE IF Len(elems) = 1 THEN elems[1]
    ELSE elems[1] \o sep \o Join(Tail(elems), sep)

\* strings.Split(s, sep) for a one-character sep: "" splits to one empty token.
RECURSIVE SplitFrom(_, _, _)
SplitFrom(s, sep, cur) ==
    IF Len(s) = 0 THEN <<cur>>
    ELSE IF Head(s) = sep THEN <<cur>> \o SplitFrom(Tail(s), sep, <<>>)
    ELSE SplitFrom(Tail(s), sep, Append(cur, Head(s)))

Split(s, sep) == SplitFrom(s, sep, <<>>)

\* strconv.ParseUint(tok, 10, 64): an error for the empty string and for any
\* character that is not a decimal digit (a sign included).  The tokens of this
\* model are far too short to leave 64 bits.
RECURSIVE DecimalValue(_, _)
DecimalValue(tok, acc) ==
    IF Len(tok) = 0 THEN acc
    ELSE DecimalValue(Tail(tok), acc * 10 + DigitVal(Head(tok)))

ParseUint(tok) ==
    IF Len(tok) = 0 \/ \E k \in 1 .. Len(tok) : ~IsDigit(tok[k])
    THEN [err |-> TRUE, val |-> 0]
    ELSE [err |-> FALSE, val |-> DecimalValue(tok, 0)]

\* -------------------------------------------------------------------- pool

ErrNotEnough == "not enough free CPUsets"

\* newDockerProvider: cpuSets is make([]bool, cpuSetSize), at least 2 long.
PoolSize(cpuSetSize) == IF cpuSetSize < 2 THEN 2 ELSE cpuSetSize

NewPool(cpuSetSize) == [i \in 0 .. PoolSize(cpuSetSize) - 1 |-> FALSE]

PoolLen(pool) == Cardinality(DOMAIN pool)

\* The scan of checkoutCPUSets: for i, checkedOut := range p.cpuSets.
RECURSIVE ScanFrom(_, _, _, _)
ScanFrom(pool, i, got, n) ==
    IF i >= PoolLen(pool) THEN got
    ELSE LET got2 == IF ~pool[i] THEN Append(got, i) ELSE got
         IN  IF Len(got2) = n THEN got2
             ELSE ScanFrom(pool, i + 1, got2, n)

\* A faulty scan: it starts at index 1.
ScanFree_SkipFirst(pool, n) == ScanFrom(pool, 1, <<>>, n)

\* The whole scan, from index 0 with nothing collected.
ScanFree(pool, n) == ScanFrom(pool, 0, <<>>, n)

\* A faulty marking: flags are set before the length of the scan is checked.
MarkScanned_MarkFirst(pool, got, n) ==
    [cpuSets |-> [i \in DOMAIN pool |->
                    pool[i] \/ \E k \in 1 .. Len(got) : got[k] = i],
     ret |-> IF Len(got) # n THEN <<>>
             ELSE Join([k \in 1 .. Len(got) |-> Itoa(got[k])], <<",">>),
     err |-> IF Len(got) # n THEN ErrNotEnough ELSE ""]

\* The rest of checkoutCPUSets: the length check, then the marking loop and
\* the joined string.
MarkScanned(pool, got, n) ==
    IF Len(got) # n
    THEN [cpuSets |-> pool, ret |-> <<>>, err |-> ErrNotEnough]
    ELSE [cpuSets |-> [i \in DOMAIN pool |->
                         pool[i] \/ \E k \in 1 .. Len(got) : got[k] = i],
          ret |-> Join([k \in 1 .. Len(got) |-> Itoa(got[k])], <<",">>),
          err |-> ""]

\* checkoutCPUSets as one critical section.
checkoutCPUSets(pool, n) == MarkScanned(pool, ScanFree(pool, n), n)

\* The loop of checkinCPUSets over strings.Split(sets, ","): a token that does
\* not parse is skipped; p.cpuSets[int(cpu)] = false panics (index out of
\* range) when the index is not in the pool, with the earlier tokens cleared.
RECURSIVE CheckinFrom(_, _, _)
CheckinFrom(pool, toks, k) ==
    IF k > Len(toks) THEN [cpuSets |-> pool, panic |-> FALSE]
    ELSE LET r == ParseUint(toks[k])
         IN  IF r.err THEN CheckinFrom(pool, toks, k + 1)
             ELSE IF r.val \notin DOMAIN pool
                  THEN [cpuSets |-> pool, panic |-> TRUE]
                  ELSE CheckinFrom([pool EXCEPT ![r.val] = FALSE], toks, k + 1)

checkinCPUSets(pool, sets) == CheckinFrom(pool, Split(sets, ","), 1)

\* The indices a string names: its tokens that parse.
SetIndices(sets) ==
    LET toks == Split(sets, ",")
    IN  {ParseUint(toks[k]).val :
            k \in {j \in 1 .. Len(toks) : ~ParseUint(toks[j]).err}}

CheckedOut(pool) == {i \in DOMAIN pool : pool[i]}

\* ------------------------------------------------- callers of the pool

Callers == 1 .. NumCallers

\* A mutex that excludes nobody.
MutexFree_NoLock == TRUE

\* p.cpuSetsMutex.Lock() can be taken.
MutexFree == cpuSetsMutex = 0

\* checkoutCPUSets, p.cpuSetsMutex.Lock().
CheckoutLock(p) ==
    /\ ~panicked
    /\ ppc[p] = "idle"
    /\ ~holding[p]
    /\ MutexFree
    /\ cpuSetsMutex' = p
    /\ ppc' = [ppc EXCEPT ![p] = "co_locked"]
    /\ pentry' = [pentry EXCEPT ![p] = cpuSets]
    /\ plocal' = [plocal EXCEPT ![p] = <<>>]
    /\ pret' = [pret EXCEPT ![p] = <<>>]
    /\ perr' = [perr EXCEPT ![p] = ""]
    /\ UNCHANGED <<cpuSets, runCPUs, runNative, panicked, holding, psets,
                   lifeVars, auxVars>>

\* checkoutCPUSets, the scan of the pool into the local slice.
CheckoutScan(p) ==
    /\ ~panicked
    /\ ppc[p] = "co_locked"
    /\ plocal' = [plocal EXCEPT ![p] = ScanFree(cpuSets, runCPUs)]
    /\ ppc' = [ppc EXCEPT ![p] = "co_scanned"]
    /\ UNCHANGED <<poolVars, pret, perr, pentry, holding, psets, lifeVars,
                   auxVars>>

\* checkoutCPUSets, the length check and the marking loop.
CheckoutMark(p) ==
    /\ ~panicked
    /\ ppc[p] = "co_scanned"
    /\ LET r == MarkScanned(cpuSets, plocal[p], runCPUs)
       IN  /\ cpuSets' = r.cpuSets
           /\ pret' = [pret EXCEPT ![p] = r.ret]
           /\ perr' = [perr EXCEPT ![p] = r.err]
           /\ holding' = [holding EXCEPT ![p] = r.err = ""]
    /\ ppc' = [ppc EXCEPT ![p] = "co_marked"]
    /\ UNCHANGED <<cpuSetsMutex, runCPUs, runNative, panicked, plocal, pentry,
                   psets, lifeVars, auxVars>>

\* No snapshot: what pentry holds while no call is in progress.
NoEntry == [i \in DOMAIN cpuSets |-> FALSE]

\* checkoutCPUSets, the deferred Unlock and the return: the caller keeps the
\* returned string, the call's locals are gone.
CheckoutUnlock(p) ==
    /\ ~panicked
    /\ ppc[p] = "co_marked"
    /\ cpuSetsMutex' = 0
    /\ ppc' = [ppc EXCEPT ![p] = "idle"]
    /\ psets' = [psets EXCEPT ![p] = pret[p]]
    /\ plocal' = [plocal EXCEPT ![p] = <<>>]
    /\ pret' = [pret EXCEPT ![p] = <<>>]
    /\ perr' = [perr EXCEPT ![p] = ""]
    /\ pentry' = [pentry EXCEPT ![p] = NoEntry]
    /\ UNCHANGED <<cpuSets, runCPUs, runNative, panicked, holding, lifeVars,
                   auxVars>>

\* checkinCPUSets(psets[p]), p.cpuSetsMutex.Lock().
CheckinLock(p) ==
    /\ ~panicked
    /\ ppc[p] = "idle"
    /\ holding[p]
    /\ MutexFree
    /\ cpuSetsMutex' = p
    /\ ppc' = [ppc EXCEPT ![p] = "ci_locked"]
    /\ pentry' = [pentry EXCEPT ![p] = cpuSets]
    /\ UNCHANGED <<cpuSets, runCPUs, runNative, panicked, plocal, pret, perr,
                   holding, psets, lifeVars, auxVars>>

\* checkinCPUSets, the loop over the tokens.
CheckinClear(p) ==
    /\ ~panicked
    /\ ppc[p] = "ci_locked"
    /\ LET r == checkinCPUSets(cpuSets, psets[p])
       IN  /\ cpuSets' = r.cpuSets
           /\ panicked' = r.panic
    /\ holding' = [holding EXCEPT ![p] = FALSE]
    /\ ppc' = [ppc EXCEPT ![p] = "ci_cleared"]
    /\ UNCHANGED <<cpuSetsMutex, runCPUs, runNative, plocal, pret, perr,
                   pentry, psets, lifeVars, auxVars>>

\* checkinCPUSets, the deferred Unlock and the return.
CheckinUnlock(p) ==
    /\ ~panicked
    /\ ppc[p] = "ci_cleared"
    /\ cpuSetsMutex' = 0
    /\ ppc' = [ppc EXCEPT ![p] = "idle"]
    /\ psets' = [psets EXCEPT ![p] = <<>>]
    /\ pentry' = [pentry EXCEPT ![p] = NoEntry]
    /\ UNCHANGED <<cpuSets, runCPUs, runNative, panicked, plocal, pret, perr,
                   holding, lifeVars, auxVars>>

InitCallers ==
    /\ ppc = [p \in Callers |-> "idle"]
    /\ plocal = [p \in Callers |-> <<>>]
    /\ pret = [p \in Callers |-> <<>>]
    /\ perr = [p \in Callers |-> ""]
    /\ holding = [p \in Callers |-> FALSE]
    /\ psets = [p \in Callers |-> <<>>]
    /\ pentry = [p \in Callers |-> NoEntry]

\* A provider as newDockerProvider builds it, for every CPU_SET_SIZE and CPUS.
InitProvider ==
    /\ \E size \in 0 .. MaxCPUSetSize : cpuSets = NewPool(size)
    /\ cpuSetsMutex = 0
    /\ runCPUs \in 0 .. MaxCPUs
    /\ runNative \in BOOLEAN
    /\ panicked = FALSE

\* ------------------------------------------- Provider.Start and Instances

Starts == 1 .. MaxStarts

ErrSelect == "failed to find matching docker image tag"
ErrCreate == "create container error"
ErrStart == "start container error"
ErrInspect == "inspect container error"
ErrStop == "stop container error"
ErrRemove == "remove container error"
Canceled == "context canceled"
DeadlineExceeded == "context deadline exceeded"

CtxErrs == {Canceled, DeadlineExceeded}

\* A nil *docker.Container.
NilContainer == [isNil |-> TRUE, ID |-> 0, CPUSet |-> <<>>]

\* A *docker.Container with the fields the backend reads.
Container(id, cpuSet) == [isNil |-> FALSE, ID |-> id, CPUSet |-> cpuSet]

InitLife ==
    /\ spc = [s \in Starts |-> "idle"]
    /\ ctx = [s \in Starts |-> "live"]
    /\ ctxEntry = [s \in Starts |-> FALSE]
    /\ sres = [s \in Starts |-> ""]
    /\ scpu = [s \in Starts |-> <<>>]
    /\ createCalled = [s \in Starts |-> FALSE]
    /\ removeCalled = [s \in Starts |-> FALSE]
    /\ gpc = [s \in Starts |-> "none"]
    /\ inst = [s \in Starts |-> NilContainer]
    /\ ipc = [s \in Starts |-> "idle"]
    /\ stops = [s \in Starts |-> 0]
    /\ stopArg = [s \in Starts |-> <<>>]
    /\ stres = [s \in Starts |-> ""]
    /\ stopLog = [s \in Starts |-> <<>>]

\* Start returns err (and a nil Instance).
StartFails(s, err) ==
    /\ spc' = [spc EXCEPT ![s] = "returned"]
    /\ sres' = [sres EXCEPT ![s] = err]

\* A caller calls Provider.Start with a context that is live or already done.
StartCall(s) ==
    /\ ~panicked
    /\ spc[s] = "idle"
    /\ \E c \in {"live"} \cup CtxErrs :
          /\ ctx' = [ctx EXCEPT ![s] = c]
          /\ ctxEntry' = [ctxEntry EXCEPT ![s] = c # "live"]
    /\ spc' = [spc EXCEPT ![s] = "resolve"]
    /\ UNCHANGED <<poolVars, callerVars, auxVars, sres, scpu, createCalled,
                   removeCalled, gpc, instVars>>

\* The caller cancels the context, or its deadline passes, while Start runs.
CtxDone(s) ==
    /\ ~panicked
    /\ spc[s] \in {"resolve", "checkout", "create", "startc", "select"}
    /\ ctx[s] = "live"
    /\ \E c \in CtxErrs : ctx' = [ctx EXCEPT ![s] = c]
    /\ UNCHANGED <<poolVars, callerVars, auxVars, spc, ctxEntry, sres, scpu,
                   createCalled, removeCalled, gpc, instVars>>

\* Start, image resolution: an explicit ImageName is used as it is; otherwise
\* imageSelector.Select runs, and its error is returned.
ResolveImage(s) ==
    /\ ~panicked
    /\ spc[s] = "resolve"
    /\ \E explicit \in BOOLEAN, selectFails \in BOOLEAN :
          IF ~explicit /\ selectFails
          THEN StartFails(s, ErrSelect)
          ELSE /\ spc' = [spc EXCEPT ![s] = "checkout"]
               /\ UNCHANGED sres
    /\ UNCHANGED <<poolVars, callerVars, auxVars, ctx, ctxEntry, scpu,
                   createCalled, removeCalled, gpc, instVars>>

\* Start, p.checkoutCPUSets(): its error is returned; otherwise the string
\* goes into dockerConfig.CPUSet.
Checkout(s) ==
    /\ ~panicked
    /\ spc[s] = "checkout"
    /\ MutexFree
    /\ LET r == checkoutCPUSets(cpuSets, runCPUs)
       IN  IF r.err # ""
           THEN /\ StartFails(s, r.err)
                /\ UNCHANGED <<cpuSets, scpu>>
           ELSE /\ cpuSets' = r.cpuSets
                /\ scpu' = [scpu EXCEPT ![s] = r.ret]
                /\ spc' = [spc EXCEPT ![s] = "create"]
                /\ UNCHANGED sres
    /\ UNCHANGED <<cpuSetsMutex, runCPUs, runNative, panicked, callerVars,
                   auxVars, ctx, ctxEntry, createCalled, removeCalled, gpc,
                   instVars>>

\* Start, p.client.CreateContainer and the lines up to its error check:
\* container.Config is assigned before err is looked at, so an error that
\* comes with a nil container panics; an error that comes with a container
\* removes it (the removal's own error is only logged) and is returned.
CreateContainer(s) ==
    /\ ~panicked
    /\ spc[s] = "create"
    /\ createCalled' = [createCalled EXCEPT ![s] = TRUE]
    /\ \E failed \in BOOLEAN, handle \in BOOLEAN, removeFails \in BOOLEAN :
          IF ~failed
          THEN /\ handle
               /\ ~removeFails
               /\ spc' = [spc EXCEPT ![s] = "startc"]
               /\ UNCHANGED <<sres, panicked, removeCalled>>
          ELSE IF ~handle
          THEN /\ ~removeFails
               /\ panicked' = TRUE
               /\ spc' = [spc EXCEPT ![s] = "panicked"]
               /\ UNCHANGED <<sres, removeCalled>>
          ELSE /\ removeCalled' = [removeCalled EXCEPT ![s] = TRUE]
               /\ StartFails(s, ErrCreate)
               /\ UNCHANGED panicked
    /\ UNCHANGED <<cpuSets, cpuSetsMutex, runCPUs, runNative, callerVars,
                   auxVars, ctx, ctxEntry, scpu, gpc, instVars>>

\* Start, p.client.StartContainer: its error is returned; otherwise the
\* readiness-polling goroutine is started and Start waits in its select.
StartContainer(s) ==
    /\ ~panicked
    /\ spc[s] = "startc"
    /\ \E failed \in BOOLEAN :
          IF failed
          THEN /\ StartFails(s, ErrStart)
               /\ UNCHANGED gpc
          ELSE /\ spc' = [spc EXCEPT ![s] = "select"]
               /\ gpc' = [gpc EXCEPT ![s] = "inspect"]
               /\ UNCHANGED sres
    /\ UNCHANGED <<poolVars, callerVars, auxVars, ctx, ctxEntry, scpu,
                   createCalled, removeCalled, instVars>>

\* The goroutine, one p.client.InspectContainer: container.Config is assigned
\* before err is looked at, so an error that comes with a nil container
\* panics; an error with a container goes to errChan; a running container
\* goes to containerReady; otherwise the loop inspects again.
PollInspect(s) ==
    /\ ~panicked
    /\ gpc[s] = "inspect"
    /\ \E failed \in BOOLEAN, handle \in BOOLEAN, running \in BOOLEAN :
          IF failed /\ ~handle
          THEN /\ ~running
               /\ panicked' = TRUE
               /\ gpc' = [gpc EXCEPT ![s] = "panicked"]
          ELSE IF failed
          THEN /\ ~running
               /\ gpc' = [gpc EXCEPT ![s] = "sendErr"]
               /\ UNCHANGED panicked
          ELSE /\ handle
               /\ gpc' = [gpc EXCEPT ![s] =
                            IF running THEN "sendReady" ELSE "inspect"]
               /\ UNCHANGED panicked
    /\ UNCHANGED <<cpuSets, cpuSetsMutex, runCPUs, runNative, callerVars,
                   auxVars, spc, ctx, ctxEntry, sres, scpu, createCalled,
                   removeCalled, instVars>>

\* Start's select: a case that can proceed is taken, any one of them when
\* several can.  The channels are unbuffered: a send completes with its case.
Select(s) ==
    /\ ~panicked
    /\ spc[s] = "select"
    /\ \/ /\ gpc[s] = "sendReady"
          /\ gpc' = [gpc EXCEPT ![s] = "done"]
          /\ spc' = [spc EXCEPT ![s] = "returned"]
          /\ sres' = [sres EXCEPT ![s] = "instance"]
          /\ inst' = [inst EXCEPT ![s] = Container(s, scpu[s])]
       \/ /\ gpc[s] = "sendErr"
          /\ gpc' = [gpc EXCEPT ![s] = "done"]
          /\ StartFails(s, ErrInspect)
          /\ UNCHANGED inst
       \/ /\ ctx[s] # "live"
          /\ StartFails(s, ctx[s])
          /\ UNCHANGED <<gpc, inst>>
    /\ UNCHANGED <<poolVars, callerVars, auxVars, ctx, ctxEntry, scpu,
                   createCalled, removeCalled, ipc, stops, stopArg, stres,
                   stopLog>>

ErrDial == "ssh dial error"

\* The Config.CPUSet of the container value InspectContainer returns: the
\* runtime reports the value given at creation, or reports none (the provider
\* assigns Config itself after every inspection in Start).
ReportedCPUSets(s) == {scpu[s], <<>>}

\* An Instance that Start returned, with no call in progress on it.
InstanceIdle(s) ==
    /\ ~panicked
    /\ sres[s] = "instance"
    /\ ipc[s] = "idle"

\* sshConnection: i.container.ID needs a container; i.container becomes what
\* InspectContainer returns, nil with an error included; then the dial.
\* The result is [panic, container, err].
sshConnection(c, failed, handle, reported, dialFails) ==
    IF c.isNil THEN [panic |-> TRUE, container |-> c, err |-> ""]
    ELSE IF failed
    THEN [panic |-> FALSE,
          container |-> IF handle THEN Container(c.ID, reported)
                        ELSE NilContainer,
          err |-> ErrInspect]
    ELSE [panic |-> FALSE, container |-> Container(c.ID, reported),
          err |-> IF dialFails THEN ErrDial ELSE ""]

\* Instance.UploadScript as the Instance and the process see it: natively
\* (uploadScriptNative) only i.container.ID is read; over ssh (uploadScriptSCP)
\* sshConnection replaces i.container.  What it returns goes to the caller.
UploadScript(s) ==
    /\ InstanceIdle(s)
    /\ stops[s] = 0
    /\ \E failed \in BOOLEAN, handle \in BOOLEAN, dialFails \in BOOLEAN,
          reported \in ReportedCPUSets(s) :
          IF runNative
          THEN /\ ~failed /\ ~handle /\ ~dialFails
               /\ reported = scpu[s]
               /\ panicked' = inst[s].isNil
               /\ UNCHANGED inst
          ELSE LET c == sshConnection(inst[s], failed, handle, reported,
                                      dialFails)
               IN  /\ panicked' = c.panic
                   /\ inst' = [inst EXCEPT ![s] = c.container]
    /\ UNCHANGED <<cpuSets, cpuSetsMutex, runCPUs, runNative, callerVars,
                   auxVars, startVars, ipc, stops, stopArg, stres, stopLog>>

\* Instance.RunScript as the Instance and the process see it: natively
\* (runScriptExec) the call returns, or stays blocked on successChan when
\* StartExec fails before it signals; over ssh (runScriptSSH) sshConnection
\* replaces i.container.  What it returns goes to the caller.
RunScript(s) ==
    /\ InstanceIdle(s)
    /\ stops[s] = 0
    /\ \E failed \in BOOLEAN, handle \in BOOLEAN, dialFails \in BOOLEAN,
          reported \in ReportedCPUSets(s), acked \in BOOLEAN :
          IF runNative
          THEN /\ ~failed /\ ~handle /\ ~dialFails
               /\ reported = scpu[s]
               /\ panicked' = inst[s].isNil
               /\ ipc' = [ipc EXCEPT ![s] =
                            IF acked \/ inst[s].isNil THEN "idle"
                            ELSE "blocked"]
               /\ UNCHANGED inst
          ELSE LET c == sshConnection(inst[s], failed, handle, reported,
                                      dialFails)
               IN  /\ acked
                   /\ panicked' = c.panic
                   /\ inst' = [inst EXCEPT ![s] = c.container]
                   /\ UNCHANGED ipc
    /\ UNCHANGED <<cpuSets, cpuSetsMutex, runCPUs, runNative, callerVars,
                   auxVars, startVars, stops, stopArg, stres, stopLog>>

\* Instance.Stop, the defer statement: the argument of the deferred
\* checkinCPUSets, i.container.Config.CPUSet, is evaluated now, and needs a
\* container.
StopCall(s) ==
    /\ InstanceIdle(s)
    /\ stops[s] < MaxStops
    /\ IF inst[s].isNil
       THEN /\ panicked' = TRUE
            /\ UNCHANGED <<ipc, stopArg, stopLog>>
       ELSE /\ ipc' = [ipc EXCEPT ![s] = "stopc"]
            /\ stopArg' = [stopArg EXCEPT ![s] = inst[s].CPUSet]
            /\ stopLog' = [stopLog EXCEPT ![s] = <<>>]
            /\ UNCHANGED panicked
    /\ UNCHANGED <<cpuSets, cpuSetsMutex, runCPUs, runNative, callerVars,
                   auxVars, startVars, inst, stops, stres>>

\* A faulty Stop: the check-in is made before the runtime is asked to stop.
StopContainerCall_CheckinFirst(s) ==
    /\ ~panicked
    /\ ipc[s] = "stopc"
    /\ MutexFree
    /\ cpuSets' = checkinCPUSets(cpuSets, stopArg[s]).cpuSets
    /\ stopLog' = [stopLog EXCEPT ![s] = stopLog[s] \o <<"checkin", "stop">>]
    /\ ipc' = [ipc EXCEPT ![s] = "removec"]
    /\ UNCHANGED <<cpuSetsMutex, runCPUs, runNative, panicked, callerVars,
                   auxVars, startVars, inst, stops, stopArg, stres>>

\* Stop, i.client.StopContainer(i.container.ID, 30): its error is what Stop
\* returns, after the deferred call.
StopContainerCall(s) ==
    /\ ~panicked
    /\ ipc[s] = "stopc"
    /\ stopLog' = [stopLog EXCEPT ![s] = Append(stopLog[s], "stop")]
    /\ \E failed \in BOOLEAN :
          IF failed
          THEN /\ stres' = [stres EXCEPT ![s] = ErrStop]
               /\ ipc' = [ipc EXCEPT ![s] = "deferred"]
          ELSE /\ ipc' = [ipc EXCEPT ![s] = "removec"]
               /\ UNCHANGED stres
    /\ UNCHANGED <<poolVars, callerVars, auxVars, startVars, inst, stops,
                   stopArg>>

\* Stop, i.client.RemoveContainer: its result is what Stop returns, after
\* the deferred call.
RemoveContainerCall(s) ==
    /\ ~panicked
    /\ ipc[s] = "removec"
    /\ stopLog' = [stopLog EXCEPT ![s] = Append(stopLog[s], "remove")]
    /\ \E failed \in BOOLEAN :
          stres' = [stres EXCEPT ![s] = IF failed THEN ErrRemove ELSE ""]
    /\ ipc' = [ipc EXCEPT ![s] = "deferred"]
    /\ UNCHANGED <<poolVars, callerVars, auxVars, startVars, inst, stops,
                   stopArg>>

\* Stop, the deferred i.provider.checkinCPUSets(stopArg), then the return.
StopCheckin(s) ==
    /\ ~panicked
    /\ ipc[s] = "deferred"
    /\ MutexFree
    /\ LET r == checkinCPUSets(cpuSets, stopArg[s])
       IN  /\ cpuSets' = r.cpuSets
           /\ panicked' = r.panic
    /\ stopLog' = [stopLog EXCEPT ![s] = Append(stopLog[s], "checkin")]
    /\ ipc' = [ipc EXCEPT ![s] = "idle"]
    /\ stops' = [stops EXCEPT ![s] = stops[s] + 1]
    /\ UNCHANGED <<cpuSetsMutex, runCPUs, runNative, callerVars, auxVars,
                   startVars, inst, stopArg, stres>>

\* ------------------------------------------ dockerTagImageSelector.Select

TravisPrefix == <<"t", "r", "a", "v", "i", "s", ":">>

DefaultName == <<"d", "e", "f", "a", "u", "l", "t">>

Ruby == <<"r", "u", "b", "y">>

Go == <<"g", "o">>

\* params.Language of the calls: a language with images of its own, one
\* with none, and the word "default" itself.
Languages == {Ruby, Go, DefaultName}

\* The repository tags the images of the catalog carry.
TagNames ==
    {TravisPrefix \o Ruby, Ruby, TravisPrefix \o DefaultName, DefaultName}

\* The image identifiers: one that no search tag equals, and one that does.
ImageIDs == {<<"a">>, DefaultName}

\* docker.APIImages with the fields the selector reads.
TagLists == UNION {[1 .. n -> TagNames] : n \in 0 .. MaxTags}

APIImages == [ID : ImageIDs, RepoTags : TagLists]

Catalogs == UNION {[1 .. n -> APIImages] : n \in 0 .. MaxImages}

ErrList == "failed to list docker images"

\* A faulty search order: the generic defaults come before the language.
SearchTags_DefaultsFirst(lang) ==
    <<TravisPrefix \o DefaultName, DefaultName, TravisPrefix \o lang, lang>>

\* The search tags Select hands to findDockerImageByTag, in its order.
SearchTags(lang) ==
    <<TravisPrefix \o lang, lang, TravisPrefix \o DefaultName, DefaultName>>

\* The inner loops of findDockerImageByTag for one search tag: the images, in
\* catalog order, whose ID or one of whose RepoTags equals it.
Hits(searchTag, imgs) ==
    {j \in 1 .. Len(imgs) :
        \/ searchTag = imgs[j].ID
        \/ \E m \in 1 .. Len(imgs[j].RepoTags) :
              imgs[j].RepoTags[m] = searchTag}

\* findDockerImageByTag: the outer loop from search tag k on; the result is
\* (image.ID, searchTag, nil) at the first hit, ("", "", error) with none.
RECURSIVE FindFrom(_, _, _)
FindFrom(searchTags, imgs, k) ==
    IF k > Len(searchTags)
    THEN [id |-> <<>>, tag |-> <<>>, err |-> ErrSelect]
    ELSE LET hit == Hits(searchTags[k], imgs)
         IN  IF hit # {}
             THEN [id |-> imgs[CHOOSE j \in hit : \A i \in hit : j <= i].ID,
                   tag |-> searchTags[k],
                   err |-> ""]
             ELSE FindFrom(searchTags, imgs, k + 1)

findDockerImageByTag(searchTags, imgs) == FindFrom(searchTags, imgs, 1)

InitSelect ==
    /\ language = <<>>
    /\ images = <<>>
    /\ selpc = "unused"
    /\ selret = [name |-> <<>>, err |-> ""]

\* dockerTagImageSelector.Select: a ListImages error is returned wrapped;
\* otherwise the name findDockerImageByTag found and its error.
dockerTagImageSelector_Select ==
    /\ selpc = "idle"
    /\ \E listFails \in BOOLEAN :
          selret' = IF listFails THEN [name |-> <<>>, err |-> ErrList]
                    ELSE LET r == findDockerImageByTag(SearchTags(language),
                                                       images)
                         IN  [name |-> r.tag, err |-> r.err]
    /\ selpc' = "returned"
    /\ UNCHANGED <<poolVars, callerVars, lifeVars, scriptVars, language,
                   images>>

\* --------------------------- UploadScript and RunScript, step by step

\* Errors are chains of messages: nil is the empty chain, errors.Wrap puts its
\* message in front and keeps nil as nil.
Wrap(err, msg) == IF err = <<>> THEN <<>> ELSE <<msg>> \o err

ErrStaleVM == "previous build artifacts found on stale vm"
ErrUpload == "upload error"
ErrCreateExec == "create exec error"
ErrInspectExec == "inspect exec error"
ErrRun == "run command error"

MsgUpload == "couldn't upload build script"
MsgConnect == "couldn't connect to SSH server"
MsgRun == "error running script"

\* The exit statuses a remote process ends with.
ExitCodes == {0, 1, 255}

\* uint8(n).
Uint8(n) == n % 256

NoSeen == [kind |-> "none", flag |-> FALSE, err |-> FALSE, code |-> 0]

NoResult == [completed |-> FALSE, exitCode |-> 0, err |-> <<>>]

InitScript ==
    /\ rpc = "unused"
    /\ epc = "none"
    /\ conn = "none"
    /\ seen = NoSeen
    /\ rres = NoResult

\* An Instance that Start returned and nobody stopped, with no UploadScript
\* or RunScript call in progress on it.
ScriptIdle(s) ==
    /\ ~panicked
    /\ sres[s] = "instance"
    /\ stops[s] = 0
    /\ ipc[s] = "idle"
    /\ rpc \in {"idle", "up_returned", "run_returned"}

\* UploadScript: the transport is chosen by i.runNative.
UploadScriptCall(s) ==
    /\ ScriptIdle(s)
    /\ rpc' = IF runNative THEN "up_native" ELSE "up_connect"
    /\ epc' = "none"
    /\ conn' = "none"
    /\ seen' = NoSeen
    /\ rres' = NoResult
    /\ UNCHANGED <<poolVars, callerVars, lifeVars, selVars>>

\* uploadScriptNative: the tar archive is built in memory; what
\* UploadToContainer(i.container.ID, ...) returns is returned.
uploadScriptNative(s) ==
    /\ ~panicked
    /\ rpc = "up_native"
    /\ IF inst[s].isNil
       THEN /\ panicked' = TRUE
            /\ rpc' = "panicked"
            /\ UNCHANGED <<seen, rres>>
       ELSE /\ \E failed \in BOOLEAN :
                  /\ seen' = [NoSeen EXCEPT !.kind = "uploadToContainer",
                                            !.err = failed]
                  /\ rres' = [NoResult EXCEPT
                                !.err = IF failed THEN <<ErrUpload>> ELSE <<>>]
            /\ rpc' = "up_returned"
            /\ UNCHANGED panicked
    /\ UNCHANGED <<cpuSets, cpuSetsMutex, runCPUs, runNative, callerVars,
                   lifeVars, selVars, epc, conn>>

\* The first lines of uploadScriptSCP and of runScriptSSH: i.sshConnection(),
\* whose error uploadScriptSCP returns as it is and runScriptSSH wraps; with
\* no error the connection is open.
SSHConnect(s) ==
    /\ ~panicked
    /\ rpc \in {"up_connect", "run_connect"}
    /\ \E failed \in BOOLEAN, handle \in BOOLEAN, dialFails \in BOOLEAN,
          reported \in ReportedCPUSets(s) :
          LET c == sshConnection(inst[s], failed, handle, reported, dialFails)
          IN  /\ panicked' = c.panic
              /\ inst' = [inst EXCEPT ![s] = c.container]
              /\ IF c.panic
                 THEN /\ rpc' = "panicked"
                      /\ UNCHANGED <<conn, seen, rres>>
                 ELSE IF c.err # ""
                 THEN /\ seen' = [NoSeen EXCEPT !.kind = "connect",
                                                !.err = TRUE]
                      /\ rres' = [NoResult EXCEPT !.err =
                                    IF rpc = "up_connect" THEN <<c.err>>
                                    ELSE Wrap(<<c.err>>, MsgConnect)]
                      /\ rpc' = IF rpc = "up_connect" THEN "up_returned"
                                ELSE "run_returned"
                      /\ UNCHANGED conn
                 ELSE /\ conn' = "open"
                      /\ rpc' = IF rpc = "up_connect" THEN "up_upload"
                                ELSE "run_command"
                      /\ UNCHANGED <<seen, rres>>
    /\ UNCHANGED <<cpuSets, cpuSetsMutex, runCPUs, runNative, callerVars,
                   startVars, ipc, stops, stopArg, stres, stopLog, selVars,
                   epc>>

\* A faulty result: the upload error is looked at before existed.
uploadResult_ErrFirst(existed, err) ==
    IF err # <<>> THEN Wrap(err, MsgUpload)
    ELSE IF existed THEN <<ErrStaleVM>>
    ELSE <<>>

\* uploadScriptSCP after conn.UploadFile returned (existed, err).
uploadResult(existed, err) ==
    IF existed THEN <<ErrStaleVM>>
    ELSE IF err # <<>> THEN Wrap(err, MsgUpload)
    ELSE <<>>

\* uploadScriptSCP from conn.UploadFile on: the result, then the deferred
\* conn.Close().
uploadFile(s) ==
    /\ ~panicked
    /\ rpc = "up_upload"
    /\ \E existed \in BOOLEAN, failed \in BOOLEAN :
          LET result == uploadResult(existed,
                                     IF failed THEN <<ErrUpload>> ELSE <<>>)
          IN  /\ seen' = [NoSeen EXCEPT !.kind = "upload", !.flag = existed,
                                        !.err = failed]
              /\ rres' = [NoResult EXCEPT !.err = result]
              /\ conn' = "closed"
    /\ rpc' = "up_returned"
    /\ UNCHANGED <<poolVars, callerVars, lifeVars, selVars, epc>>

\* RunScript: the transport is chosen by i.runNative.
RunScriptCall(s) ==
    /\ ScriptIdle(s)
    /\ rpc' = IF runNative THEN "createExec" ELSE "run_connect"
    /\ epc' = "none"
    /\ conn' = "none"
    /\ seen' = NoSeen
    /\ rres' = NoResult
    /\ UNCHANGED <<poolVars, callerVars, lifeVars, selVars>>

\* The RunResult and error runScriptSSH builds from what conn.RunCommand
\* returned.
runResultSSH(exitStatus, err) ==
    [completed |-> err # <<>>,
     exitCode |-> exitStatus,
     err |-> Wrap(err, MsgRun)]

\* runScriptSSH from conn.RunCommand on: the result, then the deferred
\* conn.Close().
runCommand(s) ==
    /\ ~panicked
    /\ rpc = "run_command"
    /\ \E exitStatus \in ExitCodes, failed \in BOOLEAN :
          /\ seen' = [NoSeen EXCEPT !.kind = "run", !.err = failed,
                                    !.code = exitStatus]
          /\ rres' = runResultSSH(exitStatus,
                                  IF failed THEN <<ErrRun>> ELSE <<>>)
    /\ conn' = "closed"
    /\ rpc' = "run_returned"
    /\ UNCHANGED <<poolVars, callerVars, lifeVars, selVars, epc>>

\* runScriptExec, i.client.CreateExec: its error is returned with
\* Completed false; otherwise the goroutine that calls StartExec is started
\* and the call waits on successChan.
CreateExec(s) ==
    /\ ~panicked
    /\ rpc = "createExec"
    /\ IF inst[s].isNil
       THEN /\ panicked' = TRUE
            /\ rpc' = "panicked"
            /\ UNCHANGED <<seen, rres, epc>>
       ELSE /\ \E failed \in BOOLEAN :
                  /\ seen' = [NoSeen EXCEPT !.kind = "createExec",
                                            !.err = failed]
                  /\ IF failed
                     THEN /\ rres' = [NoResult EXCEPT !.err = <<ErrCreateExec>>]
                          /\ rpc' = "run_returned"
                          /\ UNCHANGED epc
                     ELSE /\ rpc' = "waitAck"
                          /\ epc' = "startExec"
                          /\ UNCHANGED rres
            /\ UNCHANGED panicked
    /\ UNCHANGED <<cpuSets, cpuSetsMutex, runCPUs, runNative, callerVars,
                   lifeVars, selVars, conn>>

\* The goroutine, i.client.StartExec up to its Success handshake: the client
\* sends on successChan once the streams are attached; when the call fails
\* before that, it returns its error, which is logged, and nothing is sent.
StartExec(s) ==
    /\ ~panicked
    /\ epc = "startExec"
    /\ \E failed \in BOOLEAN :
          epc' = IF failed THEN "failed" ELSE "sendSuccess"
    /\ UNCHANGED <<poolVars, callerVars, lifeVars, selVars, rpc, conn, seen,
                   rres>>

\* runScriptExec, <-successChan: the receive meets the client's send.
ReceiveSuccess(s) ==
    /\ ~panicked
    /\ rpc = "waitAck"
    /\ epc = "sendSuccess"
    /\ rpc' = "sendResume"
    /\ epc' = "waitResume"
    /\ UNCHANGED <<poolVars, callerVars, lifeVars, selVars, conn, seen, rres>>

\* runScriptExec, successChan <- struct{}{}: the send meets the client's
\* receive, and the client starts to copy the streams.
SendResume(s) ==
    /\ ~panicked
    /\ rpc = "sendResume"
    /\ epc = "waitResume"
    /\ rpc' = "poll"
    /\ epc' = "streaming"
    /\ UNCHANGED <<poolVars, callerVars, lifeVars, selVars, conn, seen, rres>>

\* The goroutine, the rest of i.client.StartExec: the streams end, the call
\* returns (an error is logged) and the goroutine with it.
StreamEnds(s) ==
    /\ ~panicked
    /\ epc = "streaming"
    /\ epc' = "done"
    /\ UNCHANGED <<poolVars, callerVars, lifeVars, selVars, rpc, conn, seen,
                   rres>>

\* runScriptExec, one turn of the loop: InspectExec's error is returned with
\* Completed false; a session that is not running is returned with Completed
\* true and uint8(inspect.ExitCode); otherwise the loop sleeps and turns.
InspectExec(s) ==
    /\ ~panicked
    /\ rpc = "poll"
    /\ \E failed \in BOOLEAN, running \in BOOLEAN, code \in ExitCodes :
          /\ failed => ~running
          /\ (failed \/ running) => code = 0
          /\ seen' = [NoSeen EXCEPT !.kind = "inspectExec", !.err = failed,
                                    !.flag = running, !.code = code]
          /\ IF failed
             THEN /\ rres' = [NoResult EXCEPT !.err = <<ErrInspectExec>>]
                  /\ rpc' = "run_returned"
             ELSE IF ~running
             THEN /\ rres' = [completed |-> TRUE, exitCode |-> Uint8(code),
                              err |-> <<>>]
                  /\ rpc' = "run_returned"
             ELSE UNCHANGED <<rres, rpc>>
    /\ UNCHANGED <<poolVars, callerVars, lifeVars, selVars, epc, conn>>

\* ---------------------------------------------------------- specifications

\* The provider with Start, UploadScript, RunScript and Stop calls.
Init == InitProvider /\ InitCallers /\ InitLife /\ InitSelect /\ InitScript

Next ==
    \E s \in Starts :
       \/ StartCall(s)
       \/ CtxDone(s)
       \/ ResolveImage(s)
       \/ Checkout(s)
       \/ CreateContainer(s)
       \/ StartContainer(s)
       \/ PollInspect(s)
       \/ Select(s)
       \/ UploadScript(s)
       \/ RunScript(s)
       \/ StopCall(s)
       \/ StopContainerCall(s)
       \/ RemoveContainerCall(s)
       \/ StopCheckin(s)

Spec == Init /\ [][Next]_vars

\* One Start call and the Instance it returns, with the calls made on it.
NextInstance ==
    \E s \in {1} :
       \/ StartCall(s)
       \/ CtxDone(s)
       \/ ResolveImage(s)
       \/ Checkout(s)
       \/ CreateContainer(s)
       \/ StartContainer(s)
       \/ PollInspect(s)
       \/ Select(s)
       \/ UploadScript(s)
       \/ RunScript(s)
       \/ StopCall(s)
       \/ StopContainerCall(s)
       \/ RemoveContainerCall(s)
       \/ StopCheckin(s)

SpecInstance == Init /\ [][NextInstance]_vars

\* The pool alone, with concurrent callers that check out and check in what
\* they checked out.
NextPool ==
    \E p \in Callers :
       \/ CheckoutLock(p)
       \/ CheckoutScan(p)
       \/ CheckoutMark(p)
       \/ CheckoutUnlock(p)
       \/ CheckinLock(p)
       \/ CheckinClear(p)
       \/ CheckinUnlock(p)

SpecPool == Init /\ [][NextPool]_vars

\* The characters of the strings handed to checkinCPUSets on its own: digits
\* inside and outside the pool, the separator, a letter and a sign.
SetsAlphabet == {"0", "1", "2", "7", ",", "x", "-"}

SetsStrings == UNION {[1 .. n -> SetsAlphabet] : n \in 0 .. MaxSetsLen}

\* checkinCPUSets alone on any pool and any string.  With CPUS = 1 every set
\* of flags is one that checkouts and check-ins reach.
InitCheckin ==
    /\ \E size \in 0 .. MaxCPUSetSize :
          cpuSets \in [0 .. PoolSize(size) - 1 -> BOOLEAN]
    /\ cpuSetsMutex = 0
    /\ runCPUs = 1
    /\ runNative \in BOOLEAN
    /\ panicked = FALSE
    /\ ppc = [p \in Callers |-> "idle"]
    /\ plocal = [p \in Callers |-> <<>>]
    /\ pret = [p \in Callers |-> <<>>]
    /\ perr = [p \in Callers |-> ""]
    /\ pentry = [p \in Callers |-> NoEntry]
    /\ \E str \in SetsStrings :
          /\ psets = [p \in Callers |-> IF p = 1 THEN str ELSE <<>>]
          /\ holding = [p \in Callers |-> p = 1]
    /\ InitLife
    /\ InitSelect
    /\ InitScript

NextCheckin ==
    \E p \in Callers :
       \/ CheckinLock(p)
       \/ CheckinClear(p)
       \/ CheckinUnlock(p)

SpecCheckin == InitCheckin /\ [][NextCheckin]_vars

\* dockerTagImageSelector.Select on every catalog and every language.  The
\* selector reads no field of the provider: one provider stands for all.
InitSelector ==
    /\ cpuSets = NewPool(0)
    /\ cpuSetsMutex = 0
    /\ runCPUs = 1
    /\ runNative = FALSE
    /\ panicked = FALSE
    /\ InitCallers /\ InitLife /\ InitScript
    /\ language \in Languages
    /\ images \in Catalogs
    /\ selpc = "idle"
    /\ selret = [name |-> <<>>, err |-> ""]

NextSelector == dockerTagImageSelector_Select

SpecSelector == InitSelector /\ [][NextSelector]_vars

\* An Instance as Start returns it: the first Start of a provider, whose
\* checkout succeeded (CPUS >= 1), whose container was created, started and
\* seen running.
InitInstance ==
    /\ \E size \in 0 .. MaxCPUSetSize, n \in 1 .. MaxCPUs :
          LET r == checkoutCPUSets(NewPool(size), n)
          IN  /\ r.err = ""
              /\ cpuSets = r.cpuSets
              /\ runCPUs = n
              /\ scpu = [s \in Starts |-> IF s = 1 THEN r.ret ELSE <<>>]
              /\ inst = [s \in Starts |-> IF s = 1 THEN Container(1, r.ret)
                                          ELSE NilContainer]
    /\ cpuSetsMutex = 0
    /\ runNative \in BOOLEAN
    /\ panicked = FALSE
    /\ InitCallers
    /\ spc = [s \in Starts |-> IF s = 1 THEN "returned" ELSE "idle"]
    /\ ctx = [s \in Starts |-> "live"]
    /\ ctxEntry = [s \in Starts |-> FALSE]
    /\ sres = [s \in Starts |-> IF s = 1 THEN "instance" ELSE ""]
    /\ createCalled = [s \in Starts |-> s = 1]
    /\ removeCalled = [s \in Starts |-> FALSE]
    /\ gpc = [s \in Starts |-> IF s = 1 THEN "done" ELSE "none"]
    /\ ipc = [s \in Starts |-> "idle"]
    /\ stops = [s \in Starts |-> 0]
    /\ stopArg = [s \in Starts |-> <<>>]
    /\ stres = [s \in Starts |-> ""]
    /\ stopLog = [s \in Starts |-> <<>>]
    /\ InitSelect
    /\ epc = "none"
    /\ conn = "none"
    /\ seen = NoSeen
    /\ rres = NoResult
    /\ rpc = "idle"

\* UploadScript and RunScript calls, one after another, on that Instance.
NextScript ==
    \E s \in {1} :
       \/ UploadScriptCall(s)
       \/ uploadScriptNative(s)
       \/ SSHConnect(s)
       \/ uploadFile(s)
       \/ RunScriptCall(s)
       \/ runCommand(s)
       \/ CreateExec(s)
       \/ StartExec(s)
       \/ ReceiveSuccess(s)
       \/ SendResume(s)
       \/ StreamEnds(s)
       \/ InspectExec(s)

SpecScript == InitInstance /\ [][NextScript]_vars

\* The same calls with the scheduling the Go runtime gives: a goroutine that
\* can take a step takes it, a runtime call that is issued returns, and the
\* exec session does not run for ever.
FairScript ==
    \A s \in {1} :
       /\ WF_vars(uploadScriptNative(s))
       /\ WF_vars(SSHConnect(s))
       /\ WF_vars(uploadFile(s))
       /\ WF_vars(runCommand(s))
       /\ WF_vars(CreateExec(s))
       /\ WF_vars(StartExec(s))
       /\ WF_vars(ReceiveSuccess(s))
       /\ WF_vars(SendResume(s))
       /\ WF_vars(StreamEnds(s))
       /\ WF_vars(InspectExec(s))

SpecScriptFair == SpecScript /\ FairScript

\* One Start call with the scheduling the Go runtime gives: the polling
\* goroutine and Start's select take the steps they can take.
FairInstance == \A s \in {1} : WF_vars(PollInspect(s)) /\ WF_vars(Select(s))

SpecInstanceFair == SpecInstance /\ FairInstance

\* ------------------------------------------------------------------ claims

FreeCount(pool) == Cardinality({i \in DOMAIN pool : ~pool[i]})

RECURSIVE SumOver(_, _)
SumOver(S, f) ==
    IF S = {} THEN 0
    ELSE LET x == CHOOSE y \in S : TRUE
         IN  f[x] + SumOver(S \ {x}, f)

\* The callers whose assignment is checked out and not yet checked in, and
\* that assignment: the string being returned, or the one the caller keeps.
Holders == {p \in Callers : holding[p]}

Held(p) == IF ppc[p] = "co_marked" THEN pret[p] ELSE psets[p]

\* C1: under any interleaving of concurrent checkoutCPUSets and
\* checkinCPUSets calls, the number of pool flags that are true equals the
\* sum of the sizes of the assignments checked out and not yet checked in,
\* and no index belongs to two outstanding assignments.
C1_PoolSafety ==
    /\ Cardinality(CheckedOut(cpuSets)) =
          SumOver(Holders,
                  [p \in Callers |-> Cardinality(SetIndices(Held(p)))])
    /\ \A p \in Holders : \A q \in Holders \ {p} :
          SetIndices(Held(p)) \cap SetIndices(Held(q)) = {}

\* C1 witness: two assignments are outstanding while a third caller has just
\* checked its own in.
C1_Witness ==
    \E p \in Holders : \E q \in Holders \ {p} : \E r \in Callers :
       /\ ppc[r] = "ci_cleared"
       /\ SetIndices(Held(p)) # {}
       /\ SetIndices(Held(q)) # {}

\* The Start calls whose assignment is allocated: from the checkout in Start
\* until the first check-in of the Instance's Stop.
Allocated ==
    {s \in Starts : \/ spc[s] \in {"create", "startc", "select", "panicked"}
                    \/ sres[s] = "instance" /\ stops[s] = 0}

\* C2: across Start calls with every outcome and Stop calls, the pool's
\* length never changes, and the number of true flags equals the sum of the
\* CPU-set sizes allocated to live instances (a Start that holds its
\* checkout and has not returned yet counts with them).
C2_PoolMatchesLiveInstances ==
    [][/\ DOMAIN cpuSets' = DOMAIN cpuSets
       /\ Cardinality(CheckedOut(cpuSets')) =
             SumOver(Allocated',
                     [s \in Starts |-> Cardinality(SetIndices(scpu'[s]))])]_vars

\* Stop call on s returns in this step.
StopReturns(s) == ipc[s] = "deferred" /\ ipc'[s] = "idle"

\* C3: when the stop-container or the remove-container call of a Stop fails,
\* Stop returns that error and, as it returns, every pool index of the
\* assignment checked out for the Instance is free.
C3_FailedStopFreesAssignment ==
    [][\A s \in Starts :
          (StopReturns(s) /\ stres[s] \in {ErrStop, ErrRemove}) =>
              \A i \in SetIndices(scpu[s]) : ~cpuSets'[i]]_vars

C5_ReleasedExactlyOnce ==
    [][\A s \in Starts :
          StopReturns(s) =>
              /\ stops'[s] = 1
              /\ \A t \in Allocated \ {s} : \A i \in SetIndices(scpu[t]) :
                    cpuSets[i] => cpuSets'[i]]_vars

\* Caller p returns from checkoutCPUSets in this step.
CheckoutReturns(p) == ppc[p] = "co_marked" /\ ppc'[p] = "idle"

\* C6: a checkoutCPUSets call made when fewer than runCPUs indices are free
\* fails with "not enough free CPUsets" and leaves every flag as it was.
C6_ExhaustedCheckoutFails ==
    [][\A p \in Callers :
          (CheckoutReturns(p) /\ FreeCount(pentry[p]) < runCPUs) =>
              /\ perr[p] = ErrNotEnough
              /\ pret[p] = <<>>
              /\ ~holding'[p]
              /\ cpuSets' = pentry[p]]_vars

\* C6 witness: a checkout has failed on a pool that had free indices, fewer
\* than asked for.
C6_Witness ==
    \E p \in Callers :
       /\ ppc[p] = "co_marked"
       /\ perr[p] = ErrNotEnough
       /\ FreeCount(pentry[p]) > 0
       /\ FreeCount(pentry[p]) < runCPUs

\* C7: for every pool and every string, checkinCPUSets completes without a
\* panic, clears the flags of the indices its well-formed tokens name and
\* leaves every other flag as it was.
C7_CheckinTolerant ==
    \A p \in Callers :
       ppc[p] = "ci_cleared" =>
          /\ ~panicked
          /\ cpuSets = [i \in DOMAIN pentry[p] |->
                          pentry[p][i] /\ i \notin SetIndices(psets[p])]

\* C8: a Start called with a context that is already cancelled or past its
\* deadline returns the context's error and no Instance.
C8_DoneContextFailsStart ==
    \A s \in Starts :
       (spc[s] = "returned" /\ ctxEntry[s]) => sres[s] = ctx[s]

\* C9: when Start fails on the context after the CPU sets were checked out
\* and the container was created, the indices it checked out are free again
\* once it has returned.
C9_NoLeakOnCancel ==
    [][\A s \in Starts :
          (spc[s] = "select" /\ spc'[s] = "returned" /\ sres'[s] \in CtxErrs) =>
              \A i \in SetIndices(scpu[s]) : ~cpuSets'[i]]_vars

\* C10: when the pool cannot satisfy the checkout, Start fails with the
\* checkout error before any create-container call and changes no flag; and
\* a Start whose checkout finds enough free indices succeeds at it.
C10_ExhaustedStartFailsCleanly ==
    [][\A s \in Starts :
          (spc[s] = "checkout" /\ spc'[s] # "checkout") =>
              /\ FreeCount(cpuSets) < runCPUs =>
                    /\ spc'[s] = "returned"
                    /\ sres'[s] = ErrNotEnough
              /\ sres'[s] = ErrNotEnough =>
                    /\ ~createCalled'[s]
                    /\ cpuSets' = cpuSets
              /\ FreeCount(cpuSets) >= runCPUs => spc'[s] = "create"]_vars

\* x is the identifier or a repository tag of some image of the catalog.
Listed(x) ==
    \E j \in 1 .. Len(images) :
       \/ images[j].ID = x
       \/ \E m \in 1 .. Len(images[j].RepoTags) : images[j].RepoTags[m] = x

\* The candidates in the order the claim gives them.
Candidates ==
    <<TravisPrefix \o language, language,
      TravisPrefix \o DefaultName, DefaultName>>

Matching == {k \in 1 .. 4 : Listed(Candidates[k])}

\* C11: for every image catalog and every language, the tag selector returns
\* the first candidate, in the order "travis:<language>", "<language>",
\* "travis:default", "default", that is the identifier or a repository tag of
\* a listed image (with "travis:default" and "travis:ruby" both listed,
\* language "ruby" yields "travis:ruby"; a language with no image of its own
\* yields "travis:default"), and it fails with the no-matching-tag error
\* exactly when no candidate matches.
C11_FirstCandidateWins ==
    (selpc = "returned" /\ selret.err # ErrList) =>
       /\ Matching # {} =>
             /\ selret.err = ""
             /\ selret.name =
                   Candidates[CHOOSE k \in Matching : \A i \in Matching : k <= i]
       /\ Matching = {} <=> selret.err = ErrSelect
       /\ (/\ language = Ruby
           /\ Listed(TravisPrefix \o DefaultName)
           /\ Listed(TravisPrefix \o Ruby)) =>
             selret.name = TravisPrefix \o Ruby
       /\ (/\ ~Listed(TravisPrefix \o language)
           /\ ~Listed(language)
           /\ Listed(TravisPrefix \o DefaultName)) =>
             selret.name = TravisPrefix \o DefaultName

\* C11 witness: the catalog lists "travis:default" ahead of "travis:ruby",
\* and Select has returned "travis:ruby" for language "ruby".
C11_Witness ==
    /\ selpc = "returned"
    /\ language = Ruby
    /\ Len(images) = 2
    /\ images[1].RepoTags = <<TravisPrefix \o DefaultName>>
    /\ images[2].RepoTags = <<TravisPrefix \o Ruby>>
    /\ selret = [name |-> TravisPrefix \o Ruby, err |-> ""]

\* The remote process of the RunScript call ran to completion with no failure
\* of the transport: over ssh the command ran with no error, natively the
\* status inspection succeeded and reported the session as not running.
RanToCompletion ==
    \/ seen.kind = "run" /\ ~seen.err
    \/ seen.kind = "inspectExec" /\ ~seen.err /\ ~seen.flag

\* C12: for both transports, the result of RunScript has Completed = true,
\* with the process's exit status, exactly when the remote process ran to
\* completion without a transport-level failure, and Completed = false when
\* the connection, the exec creation, the run or the status inspection fails.
C12_CompletedMeansRan ==
    rpc = "run_returned" =>
       /\ rres.completed <=> RanToCompletion
       /\ rres.completed => rres.exitCode = seen.code

\* C13: over ssh, whenever the upload reports that the remote file existed,
\* with or without an error, UploadScript returns ErrStaleVM; when the file
\* did not exist and the upload failed it returns the upload error wrapped;
\* otherwise nil; and the connection it opened is closed in each case.
C13_UploadOutcome ==
    (rpc = "up_returned" /\ seen.kind = "upload") =>
       /\ rres.err = IF seen.flag THEN <<ErrStaleVM>>
                     ELSE IF seen.err THEN <<MsgUpload, ErrUpload>>
                     ELSE <<>>
       /\ conn = "closed"

\* C13 witness: an upload that reported both that the file existed and an
\* error has returned.
C13_Witness ==
    /\ rpc = "up_returned"
    /\ seen.kind = "upload"
    /\ seen.flag
    /\ seen.err
    /\ rres.err = <<ErrStaleVM>>
    /\ conn = "closed"

\* A Stop call is in progress on the Instance of s.
Stopping(s) == ipc[s] \in {"stopc", "removec", "deferred"}

\* C14: for every Instance that Start returned, through every sequence of
\* UploadScript and RunScript calls made before Stop, the instance's
\* container stays the one assigned at Start, and the string that Stop passes
\* to the check-in is the string checked out for the instance in Start.
C14_IdentityAndAssignmentKept ==
    \A s \in Starts :
       (sres[s] = "instance" /\ stops[s] = 0) =>
          /\ ~inst[s].isNil
          /\ inst[s].ID = s
          /\ Stopping(s) => stopArg[s] = scpu[s]

\* C15: with a configured CPU count of 0, in every pool state Start's
\* checkout succeeds, returns the empty assignment and changes no flag, and
\* Start goes on to create the container.
C15_ZeroCPUsDisablesAllocation ==
    [][\A s \in Starts :
          (runCPUs = 0 /\ spc[s] = "checkout" /\ spc'[s] # "checkout") =>
              /\ spc'[s] = "create"
              /\ scpu'[s] = <<>>
              /\ cpuSets' = cpuSets]_vars

\* C16: whenever the create-container call fails, with or without a
\* container handle, Start returns the creation error (never the error of
\* the force-remove) and no Instance, instead of ending in a panic.
C16_CreateFailureReturnsError ==
    [][\A s \in Starts :
          (spc[s] = "create" /\ spc'[s] \notin {"create", "startc"}) =>
              /\ ~panicked'
              /\ spc'[s] = "returned"
              /\ sres'[s] = ErrCreate
              /\ inst'[s].isNil]_vars

\* C17: whenever an inspection of the readiness polling fails, with or
\* without a container value, the polling task signals the error and does
\* not inspect again; with a live context Start then returns the inspection
\* error and no Instance; and Start returns an Instance only when an
\* inspection has reported the container as running.
C17_InspectFailureSignalled ==
    [][\A s \in Starts :
          /\ (/\ gpc[s] = "inspect"
              /\ ctx[s] = "live"
              /\ gpc'[s] \notin {"inspect", "sendReady"}) =>
                (gpc'[s] = "sendErr" /\ ~panicked')
          /\ gpc[s] = "sendErr" => gpc'[s] \in {"sendErr", "done"}
          /\ (/\ gpc[s] = "sendErr"
              /\ ctx[s] = "live"
              /\ spc[s] = "select"
              /\ spc'[s] = "returned") =>
                (sres'[s] = ErrInspect /\ inst'[s].isNil)
          /\ (sres[s] # "instance" /\ sres'[s] = "instance") =>
                gpc[s] = "sendReady"]_vars

\* The n lowest-numbered free indices of a pool.
LowestFree(pool, n) ==
    {i \in DOMAIN pool :
        /\ ~pool[i]
        /\ Cardinality({j \in DOMAIN pool : ~pool[j] /\ j < i}) < n}

\* C18: a checkoutCPUSets call made with at least n free indices, n >= 1 the
\* configured CPU count, succeeds, sets exactly the flags of the n lowest
\* free indices, and returns those indices in ascending order, in decimal,
\* joined by commas.
C18_LowestFreeAscending ==
    [][\A p \in Callers :
          (/\ CheckoutReturns(p)
           /\ runCPUs >= 1
           /\ FreeCount(pentry[p]) >= runCPUs) =>
              LET toks == Split(pret[p], ",")
                  low == LowestFree(pentry[p], runCPUs)
              IN  /\ perr[p] = ""
                  /\ holding'[p]
                  /\ cpuSets' = [i \in DOMAIN pentry[p] |->
                                   pentry[p][i] \/ i \in low]
                  /\ Len(toks) = runCPUs
                  /\ \A k \in 1 .. Len(toks) :
                        /\ ~ParseUint(toks[k]).err
                        /\ ParseUint(toks[k]).val \in low
                  /\ \A k \in 1 .. Len(toks) - 1 :
                        ParseUint(toks[k]).val < ParseUint(toks[k + 1]).val]_vars

\* C18 witness: a checkout has succeeded on a pool whose index 0 was taken.
C18_Witness ==
    \E p \in Callers :
       /\ ppc[p] = "co_marked"
       /\ perr[p] = ""
       /\ runCPUs >= 1
       /\ pentry[p][0]
       /\ SetIndices(pret[p]) = LowestFree(pentry[p], runCPUs)

\* C19: whatever Start returned, the polling task it started ends after
\* Start has returned: it does not stay blocked on a send nobody receives,
\* and it does not inspect for ever.
C19_PollingTerminates ==
    \A s \in Starts :
       [](spc[s] = "returned" =>
             <>(gpc[s] \in {"none", "done"} \/ panicked))

\* C20: a native RunScript call returns: it does not stay on the
\* acknowledgement rendezvous when StartExec fails without sending, and
\* after the rendezvous the first inspection that reports not-running
\* returns Completed = true with the exit code.
C20_NativeRunReturns ==
    /\ [](rpc \in {"createExec", "waitAck", "sendResume", "poll"} =>
             <>(rpc = "run_returned" \/ panicked))
    /\ [][(/\ rpc = "poll"
           /\ seen'.kind = "inspectExec"
           /\ ~seen'.err
           /\ ~seen'.flag) =>
              /\ rpc' = "run_returned"
              /\ rres' = [completed |-> TRUE, exitCode |-> seen'.code,
                          err |-> <<>>]]_vars

====
